---- MODULE Spec2Model ----
(***************************************************************************)
(* A model of the BAShapes dataset builder                                 *)
(* (graphxai/datasets/BA_shapes/ba_shapes.py).                              *)
(*                                                                         *)
(* One build is the constructor call BAShapes(...): the subclass part of   *)
(* __init__, then the base class constructor, which runs the generation    *)
(* pipeline init_graph -> planting -> feature_generator -> features ->     *)
(* labeling_rule -> labels.  The base class (ShapeGraph), the house        *)
(* template and khop_subgraph_nx live in other files of the package; they  *)
(* are modelled after the design document (sections 2, 3, 4.2).            *)
(*                                                                         *)
(* Numbers that are floats in the program (features, the median) are exact *)
(* rationals <<p, q>> with q > 0 here.                                     *)
(***************************************************************************)
EXTENDS Integers, Sequences, FiniteSets, TLC

VARIABLES
    args,        \* the constructor's arguments
    self,        \* attributes set by BAShapes.__init__ (n, m, seed, methods)
    base,        \* what is handed to the base class constructor
    pc,          \* position in the build
    err,         \* the exception that ended the build, or "none"
    numNodes,    \* G has the nodes 0 .. numNodes-1
    edges,       \* G's undirected edges, each a set {u, v}
    shape,       \* node attribute 'shape'
    shape_id,    \* node attribute 'shape_id'
    used,        \* base nodes that already anchor a motif instance
    attempts,    \* planting: insertions attempted so far
    planted,     \* planting: motif instances inserted so far
    getFeature,  \* the closure feature_generator() returned ("none" before)
    x,           \* node attribute 'x' (feature vector), per node
    getLabel,    \* the closure labeling_rule() returned ("none" before)
    med1,        \* the median captured by the labeling closure
    y,           \* the labels, per node
    pyRandom,    \* state of Python's process-wide random generator
    torchRng,    \* state of torch's process-wide random generator
    run,         \* 1: first build, 2: a second build with the same arguments
    prev         \* the dataset the first build returned

vars == <<args, self, base, pc, err, numNodes, edges, shape, shape_id, used,
          attempts, planted, getFeature, x, getLabel, med1, y, pyRandom,
          torchRng, run, prev>>

----------------------------------------------------------------------------
(* Bounds of the model. *)

MaxHops == 2
MaxN == 3
MaxM == 2
MaxShapes == 2
MaxSeed == 1
MaxBound == 2
RngMod == 4

(* num_shapes = None *)
None == -1

----------------------------------------------------------------------------
(* Strings and str.lower() on the names the model draws. *)

ShapeNames == {"house", "House", "flag", "circle", "star"}
PlantMethods == {"global", "neighborhood upper bound"}
FeatureMethods == {"network stats", "gaussian", "onehot", "OneHot", "pca"}
LabelingMethods ==
    {"edge", "feature", "edge and feature", "Feature and Edge", "degree"}

Lower(s) ==
    CASE s = "House" -> "house"
      [] s = "OneHot" -> "onehot"
      [] s = "Feature and Edge" -> "feature and edge"
      [] OTHER -> s

----------------------------------------------------------------------------
(* Rationals <<p, q>>, q > 0. *)

Rat(p) == <<p, 1>>
RLess(a, b) == a[1] * b[2] < b[1] * a[2]
RGreater(a, b) == RLess(b, a)

(* The k-th smallest (k from 0) of the values xs[0 .. N-1]. *)
Kth(xs, N, k) ==
    LET i == CHOOSE i \in 0 .. N - 1 :
                 /\ Cardinality({j \in 0 .. N - 1 : RLess(xs[j], xs[i])}) <= k
                 /\ k < Cardinality({j \in 0 .. N - 1 : ~RLess(xs[i], xs[j])})
    IN  xs[i]

(* np.median: the middle value, or the mean of the two middle values. *)
Median(xs, N) ==
    IF N % 2 = 1
    THEN Kth(xs, N, N \div 2)
    ELSE LET a == Kth(xs, N, N \div 2 - 1)
             b == Kth(xs, N, N \div 2)
         IN  <<a[1] * b[2] + b[1] * a[2], 2 * a[2] * b[2]>>

----------------------------------------------------------------------------
(* Graph helpers. *)

Nodes(N) == 0 .. N - 1
NeighborsOf(E, N, v) == {u \in Nodes(N) : u # v /\ {u, v} \in E}
Degree(E, N, v) == Cardinality(NeighborsOf(E, N, v))

RECURSIVE Reach(_, _, _, _)
Reach(E, N, S, k) ==
    IF k = 0 THEN S
    ELSE Reach(E, N, S \cup {u \in Nodes(N) : \E w \in S : {u, w} \in E}, k - 1)

(* khop_subgraph_nx(node_idx, num_hops, G): the nodes within num_hops hops. *)
khop_subgraph_nx(E, N, v, k) == Reach(E, N, {v}, k)

Nth(S, r) == CHOOSE a \in S : Cardinality({b \in S : b < a}) = r

----------------------------------------------------------------------------
(* Process-wide random generators.  Neither is seeded by the build: their  *)
(* state when a build starts is whatever the process left there.  A draw   *)
(* reads the state and advances it.                                        *)

RandomNext(s) == (s + 1) % RngMod

RECURSIVE Advance(_, _)
Advance(s, k) == IF k = 0 THEN s ELSE Advance(RandomNext(s), k - 1)

(* random.choice(range(3)) in generator state s *)
RandomChoice3(s) == s % 3

(* one component of torch.normal(mean=0, std=1.0, size=(3,)) in state s;   *)
(* the real line is cut down to three values                               *)
TorchNormal1(s) == Rat((s % 3) - 1)

----------------------------------------------------------------------------
(* BAShapes.__init__, the part before super().__init__ *)

NoSelf == [n |-> 0, m |-> 0, seed |-> 0, feature_method |-> "",
           labeling_method |-> ""]
NoBase == [num_hops |-> 0, num_shapes |-> 0, plant_method |-> "",
           insertion_shape |-> "", shape_upper_bound |-> 0]
NoData == [numNodes |-> 0, edges |-> {}, x |-> <<>>, y |-> <<>>]
NoMedian == <<0, 1>>

(* labeling_method.lower(), and 'feature and edge' as 'edge and feature' *)
NormLabelingMethod(lm) ==
    IF Lower(lm) = "feature and edge" THEN "edge and feature" ELSE Lower(lm)

(* num_shapes left at None under 'neighborhood upper bound' becomes n *)
DefaultNumShapes(a) ==
    IF a.plant_method = "neighborhood upper bound" /\ a.num_shapes = None
    THEN a.n
    ELSE a.num_shapes

(* insert_shape is bound only by the 'house' branch *)
InsertShapeBound(shp) == Lower(shp) = "house"

(* the keyword arguments of super().__init__ *)
SuperArgs(a) ==
    [num_hops |-> a.num_hops,
     num_shapes |-> DefaultNumShapes(a),
     plant_method |-> a.plant_method,
     insertion_shape |-> "house",
     shape_upper_bound |-> a.shape_upper_bound]

Construct ==
    /\ pc = "new"
    /\ self' = [n |-> args.n, m |-> args.m, seed |-> args.seed,
                feature_method |-> Lower(args.feature_method),
                labeling_method |-> NormLabelingMethod(args.labeling_method)]
    /\ IF InsertShapeBound(args.shape)
       THEN /\ base' = SuperArgs(args)
            /\ pc' = "init_graph"
            /\ err' = "none"
       ELSE /\ base' = base
            /\ pc' = "failed"
            /\ err' = "UnboundLocalError"
    /\ UNCHANGED <<args, numNodes, edges, shape, shape_id, used, attempts,
                   planted, getFeature, x, getLabel, med1, y, pyRandom,
                   torchRng, run, prev>>

----------------------------------------------------------------------------
(* init_graph: nx.barabasi_albert_graph(n, m, seed) *)

(* the check without its upper limit on m *)
ValidBAParamsNoUpper(n, m) == m >= 1

(* the library rejects m < 1 and m >= n with NetworkXError *)
ValidBAParams(n, m) == m >= 1 /\ m < n

(* node source (>= m) attaches to m distinct earlier nodes, picked by the  *)
(* seeded generator; node m attaches to all of 0 .. m-1                    *)
BATargets(seed, source, m) ==
    {(seed + source + j) % source : j \in 0 .. m - 1}

BAEdges(n, m, seed) ==
    UNION {{{source, t} : t \in BATargets(seed, source, m)} : source \in m .. n - 1}

InitGraph ==
    /\ pc = "init_graph"
    /\ IF ValidBAParams(self.n, self.m)
       THEN /\ numNodes' = self.n
            /\ edges' = BAEdges(self.n, self.m, self.seed)
            /\ shape' = [v \in Nodes(self.n) |-> 0]
            /\ shape_id' = [v \in Nodes(self.n) |-> 0]
            /\ pc' = "plant"
            /\ err' = "none"
       ELSE /\ UNCHANGED <<numNodes, edges, shape, shape_id>>
            /\ pc' = "failed"
            /\ err' = "NetworkXError"
    /\ UNCHANGED <<args, self, base, used, attempts, planted, getFeature, x,
                   getLabel, med1, y, pyRandom, torchRng, run, prev>>

----------------------------------------------------------------------------
(* Planting (base class).  The 'house' template: five nodes, a square      *)
(* 0-1-2-3 with the roof node 4 on the side 0-1.  An instance is planted   *)
(* as five new nodes, wired to its anchor (a base node not used before) by *)
(* one edge, and tagged with the motif's type and its instance number.     *)

HouseSize == 5
HouseType == 1
HouseEdges == {{0, 1}, {1, 2}, {2, 3}, {0, 3}, {0, 4}, {1, 4}}

PlantEdges(E, N, a) ==
    E \cup {{N + e[1], N + e[2]} : e \in {<<u, v>> \in (0 .. HouseSize - 1) \X (0 .. HouseSize - 1) : {u, v} \in HouseEdges}}
      \cup {{a, N}}

PlantTags(tags, N, t) ==
    [v \in Nodes(N + HouseSize) |-> IF v < N THEN tags[v] ELSE t]

(* the motif instances met in the k-hop neighbourhood of v *)
InstancesInKHop(E, N, sid, v, k) ==
    {sid[u] : u \in khop_subgraph_nx(E, N, v, k)} \ {0}

(* the policy's check, one instance too lenient *)
WithinBoundOffByOne(E, N, sid, k, b) ==
    \A v \in Nodes(N) : Cardinality(InstancesInKHop(E, N, sid, v, k)) <= b + 1

(* the check of the 'neighborhood upper bound' policy *)
WithinBound(E, N, sid, k, b) ==
    \A v \in Nodes(N) : Cardinality(InstancesInKHop(E, N, sid, v, k)) <= b

(* the anchors an insertion may use *)
Candidates ==
    LET free == Nodes(self.n) \ used
    IN  IF base.plant_method = "neighborhood upper bound"
        THEN {a \in free :
                WithinBound(PlantEdges(edges, numNodes, a), numNodes + HouseSize,
                            PlantTags(shape_id, numNodes, planted + 1),
                            base.num_hops, base.shape_upper_bound)}
        ELSE free

(* the seeded choice among the candidates *)
PickAnchor(seed, i, cands) ==
    Nth(cands, (seed + i) % Cardinality(cands))

PlantShape ==
    /\ pc = "plant"
    /\ attempts < base.num_shapes
    /\ attempts' = attempts + 1
    /\ IF Candidates # {}
       THEN LET a == PickAnchor(self.seed, attempts, Candidates)
            IN  /\ numNodes' = numNodes + HouseSize
                /\ edges' = PlantEdges(edges, numNodes, a)
                /\ shape' = PlantTags(shape, numNodes, HouseType)
                /\ shape_id' = PlantTags(shape_id, numNodes, planted + 1)
                /\ used' = used \cup {a}
                /\ planted' = planted + 1
                /\ UNCHANGED <<pc, err>>
       ELSE /\ UNCHANGED <<numNodes, edges, shape, shape_id, used, planted>>
            /\ IF base.plant_method = "neighborhood upper bound"
               THEN UNCHANGED <<pc, err>>
               ELSE pc' = "failed" /\ err' = "CapacityError"
    /\ UNCHANGED <<args, self, base, getFeature, x, getLabel, med1, y,
                   pyRandom, torchRng, run, prev>>

FinishPlanting ==
    /\ pc = "plant"
    /\ attempts >= base.num_shapes
    /\ pc' = "feature_generator"
    /\ UNCHANGED <<args, self, base, err, numNodes, edges, shape, shape_id,
                   used, attempts, planted, getFeature, x, getLabel, med1, y,
                   pyRandom, torchRng, run, prev>>

----------------------------------------------------------------------------
(* feature_generator() and the closure get_feature it returns *)

(* the dispatch without its final raise *)
SupportedFeatureMethodNoElse(fm) == TRUE

SupportedFeatureMethod(fm) == fm \in {"network stats", "gaussian", "onehot"}

FeatureGenerator ==
    /\ pc = "feature_generator"
    /\ IF SupportedFeatureMethod(self.feature_method)
       THEN /\ getFeature' = self.feature_method
            /\ pc' = "features"
            /\ err' = "none"
       ELSE /\ getFeature' = getFeature
            /\ pc' = "failed"
            /\ err' = "NotImplementedError"
    /\ UNCHANGED <<args, self, base, numNodes, edges, shape, shape_id, used,
                   attempts, planted, x, getLabel, med1, y, pyRandom,
                   torchRng, run, prev>>

(* nx.clustering(G, v): triangles through v over pairs of neighbours *)
Clustering(E, N, v) ==
    LET nb == NeighborsOf(E, N, v)
        d == Cardinality(nb)
        t == Cardinality({e \in E : e \subseteq nb /\ Cardinality(e) = 2})
    IN  IF d < 2 THEN Rat(0) ELSE <<2 * t, d * (d - 1)>>

(* nx.degree_centrality(G)[v] *)
DegreeCentrality(E, N, v) ==
    IF N <= 1 THEN Rat(1) ELSE <<Degree(E, N, v), N - 1>>

NetworkStats(E, N, v) ==
    <<Rat(Degree(E, N, v)), Clustering(E, N, v), DegreeCentrality(E, N, v)>>

(* torch.normal(..., size=(3,)): three draws, from generator state s on *)
Gaussian(s) ==
    <<TorchNormal1(s), TorchNormal1(Advance(s, 1)), TorchNormal1(Advance(s, 2))>>

(* the one-hot vector with the drawn index taken one too low *)
OneHotOffByOne(s) ==
    [i \in 1 .. 3 |-> IF i = RandomChoice3(s) THEN Rat(1) ELSE Rat(0)]

(* torch.zeros(3) with entry random.choice(range(3)) set to 1 *)
OneHot(s) ==
    [i \in 1 .. 3 |-> IF i = RandomChoice3(s) + 1 THEN Rat(1) ELSE Rat(0)]

(* get_feature(v); the nodes are visited in the order 0, 1, 2, ... and     *)
(* py, th are the generators' states when the loop starts                  *)
GetFeature(method, E, N, v, py, th) ==
    CASE method = "network stats" -> NetworkStats(E, N, v)
      [] method = "gaussian" -> Gaussian(Advance(th, 3 * v))
      [] OTHER -> OneHot(Advance(py, v))

ComputeFeatures ==
    /\ pc = "features"
    /\ x' = [v \in Nodes(numNodes) |->
                GetFeature(getFeature, edges, numNodes, v, pyRandom, torchRng)]
    /\ pyRandom' = IF getFeature = "onehot"
                   THEN Advance(pyRandom, numNodes) ELSE pyRandom
    /\ torchRng' = IF getFeature = "gaussian"
                   THEN Advance(torchRng, 3 * numNodes) ELSE torchRng
    /\ pc' = "labeling_rule"
    /\ UNCHANGED <<args, self, base, err, numNodes, edges, shape, shape_id,
                   used, attempts, planted, getFeature, getLabel, med1, y,
                   run, prev>>

----------------------------------------------------------------------------
(* labeling_rule() and the closure get_label it returns *)

SupportedLabelingMethod(lm) == lm \in {"edge", "feature", "edge and feature"}

(* x1 = [node_attr[i][1] for i in range(max_node)] *)
X1(xs, N) == [i \in Nodes(N) |-> xs[i][2]]

(* len(np.unique([G.nodes[ni]['shape'] for ni in nodes_in_khop             *)
(*                if G.nodes[ni]['shape'] > 0]))                           *)
NumUniqueHouses(E, N, shp, v, k) ==
    Cardinality({shp[ni] : ni \in {u \in khop_subgraph_nx(E, N, v, k) : shp[u] > 0}})

Returned(value) == [raised |-> "none", value |-> value]
Raised(e) == [raised |-> e, value |-> 0]
PyInt(b) == IF b THEN 1 ELSE 0

(* the edge rule with 'at most one' in place of 'exactly one' *)
EdgeLabelAtMostOne(E, N, shp, v, k) ==
    Returned(PyInt(NumUniqueHouses(E, N, shp, v, k) <= 1))

EdgeLabel(E, N, shp, v, k) ==
    Returned(PyInt(NumUniqueHouses(E, N, shp, v, k) = 1))

(* torch(int(x1[node_idx] > med1), dtype=torch.long): torch is a module,   *)
(* calling it raises TypeError                                             *)
FeatureLabel(xs, N, med, v) == Raised("TypeError")

EdgeAndFeatureLabel(E, N, shp, xs, med, v, k) ==
    Returned(PyInt(NumUniqueHouses(E, N, shp, v, k) = 1 /\ RGreater(X1(xs, N)[v], med)))

(* get_label(v) of the closure for `method` *)
GetLabel(method, E, N, shp, xs, med, v, k) ==
    CASE method = "edge" -> EdgeLabel(E, N, shp, v, k)
      [] method = "feature" -> FeatureLabel(xs, N, med, v)
      [] OTHER -> EdgeAndFeatureLabel(E, N, shp, xs, med, v, k)

LabelingRule ==
    /\ pc = "labeling_rule"
    /\ IF SupportedLabelingMethod(self.labeling_method)
       THEN /\ getLabel' = self.labeling_method
            /\ med1' = IF self.labeling_method = "edge"
                       THEN med1
                       ELSE Median(X1(x, numNodes), numNodes)
            /\ pc' = "labels"
            /\ err' = "none"
       ELSE /\ UNCHANGED <<getLabel, med1>>
            /\ pc' = "failed"
            /\ err' = "NotImplementedError"
    /\ UNCHANGED <<args, self, base, numNodes, edges, shape, shape_id, used,
                   attempts, planted, getFeature, x, y, pyRandom, torchRng,
                   run, prev>>

LabelOf(v) ==
    GetLabel(getLabel, edges, numNodes, shape, x, med1, v, base.num_hops)

ComputeLabels ==
    /\ pc = "labels"
    /\ IF \E v \in Nodes(numNodes) : LabelOf(v).raised # "none"
       THEN /\ y' = y
            /\ pc' = "failed"
            /\ err' = LabelOf(0).raised
       ELSE /\ y' = [v \in Nodes(numNodes) |-> LabelOf(v).value]
            /\ pc' = "done"
            /\ err' = "none"
    /\ UNCHANGED <<args, self, base, numNodes, edges, shape, shape_id, used,
                   attempts, planted, getFeature, x, getLabel, med1,
                   pyRandom, torchRng, run, prev>>

----------------------------------------------------------------------------
(* A second build with the same arguments, in the same process. *)

Dataset == [numNodes |-> numNodes, edges |-> edges, x |-> x, y |-> y]

Rebuild ==
    /\ pc = "done"
    /\ run = 1
    /\ run' = 2
    /\ prev' = Dataset
    /\ pc' = "new"
    /\ self' = NoSelf
    /\ base' = NoBase
    /\ numNodes' = 0
    /\ edges' = {}
    /\ shape' = <<>>
    /\ shape_id' = <<>>
    /\ used' = {}
    /\ attempts' = 0
    /\ planted' = 0
    /\ getFeature' = "none"
    /\ x' = <<>>
    /\ getLabel' = "none"
    /\ med1' = NoMedian
    /\ y' = <<>>
    /\ UNCHANGED <<args, err, pyRandom, torchRng>>

----------------------------------------------------------------------------

Args ==
    {a \in [num_hops : 1 .. MaxHops,
            n : 0 .. MaxN,
            m : 0 .. MaxM,
            num_shapes : {None} \cup (1 .. MaxShapes),
            shape : ShapeNames,
            seed : 0 .. MaxSeed,
            plant_method : PlantMethods,
            feature_method : FeatureMethods,
            labeling_method : LabelingMethods,
            shape_upper_bound : 0 .. MaxBound] :
        /\ (a.plant_method = "neighborhood upper bound") <=> (a.shape_upper_bound > 0)
        /\ a.num_shapes = None => a.plant_method = "neighborhood upper bound"}

(* The arguments with every structural argument varying, the feature       *)
(* method 'network stats' or 'onehot', and the 'edge' labeling rule.       *)
GraphArgs ==
    {a \in Args :
        /\ a.shape = "house"
        /\ a.feature_method \in {"network stats", "onehot"}
        /\ a.labeling_method = "edge"}

(* The arguments with every name and the base graph's parameters varying,  *)
(* one motif planted globally.                                             *)
ConfigArgs ==
    {a \in Args :
        /\ a.num_hops = 1
        /\ a.seed = 0
        /\ a.num_shapes = 1
        /\ a.plant_method = "global"}

InitOn(A) ==
    /\ args \in A
    /\ self = NoSelf
    /\ base = NoBase
    /\ pc = "new"
    /\ err = "none"
    /\ numNodes = 0
    /\ edges = {}
    /\ shape = <<>>
    /\ shape_id = <<>>
    /\ used = {}
    /\ attempts = 0
    /\ planted = 0
    /\ getFeature = "none"
    /\ x = <<>>
    /\ getLabel = "none"
    /\ med1 = NoMedian
    /\ y = <<>>
    /\ pyRandom \in IF Lower(args.feature_method) = "onehot"
                    THEN 0 .. RngMod - 1 ELSE {0}
    /\ torchRng \in IF Lower(args.feature_method) = "gaussian"
                    THEN 0 .. RngMod - 1 ELSE {0}
    /\ run = 1
    /\ prev = NoData

Init == InitOn(Args)
InitGraphArgs == InitOn(GraphArgs)
InitConfigArgs == InitOn(ConfigArgs)

Next ==
    \/ Construct
    \/ InitGraph
    \/ PlantShape
    \/ FinishPlanting
    \/ FeatureGenerator
    \/ ComputeFeatures
    \/ LabelingRule
    \/ ComputeLabels
    \/ Rebuild

Spec == Init /\ [][Next]_vars
SpecGraph == InitGraphArgs /\ [][Next]_vars
SpecConfig == InitConfigArgs /\ [][Next]_vars

----------------------------------------------------------------------------
(* Properties. *)

PostPlanting ==
    pc \in {"feature_generator", "features", "labeling_rule", "labels", "done"}
    \/ (pc = "failed" /\ err \in {"NotImplementedError", "TypeError"})

FeaturesComputed == pc \in {"labeling_rule", "labels", "done"}

Sum3(f) == f[1][1] + f[2][1] + f[3][1]

NoMotifInKHop(v) ==
    \A u \in khop_subgraph_nx(edges, numNodes, v, base.num_hops) : shape[u] = 0

UnsupportedNames ==
    \/ ~(Lower(args.feature_method) \in {"network stats", "gaussian", "onehot"})
    \/ ~(Lower(args.labeling_method) \in
            {"edge", "feature", "edge and feature", "feature and edge"})

UnsupportedFeatureName ==
    ~(Lower(args.feature_method) \in {"network stats", "gaussian", "onehot"})

InvalidBaseGraphParams == args.m >= args.n \/ args.n <= 0 \/ args.m <= 0

(* C1: under the 'edge' rule the label of every node of the final graph is *)
(* 1 exactly when its num_hops-hop neighbourhood meets exactly one motif   *)
(* instance, instances told apart by their instance identifier.            *)
C1_EdgeLabelCountsInstances ==
    (pc = "done" /\ getLabel = "edge") =>
        \A v \in Nodes(numNodes) :
            (y[v] = 1) <=>
                Cardinality(InstancesInKHop(edges, numNodes, shape_id, v,
                                            base.num_hops)) = 1

(* C2: under the 'feature' rule the labelling does not fail, and every     *)
(* node's label is 1 exactly when its feature coordinate 1 is strictly     *)
(* above the median of that coordinate over all nodes.                     *)
C2_FeatureLabelAboveMedian ==
    getLabel = "feature" =>
        /\ err = "none"
        /\ pc = "done" =>
              \A v \in Nodes(numNodes) :
                  (y[v] = 1) <=>
                      RGreater(x[v][2], Median(X1(x, numNodes), numNodes))

(* C3: on the final graph the label under 'edge and feature' is 1 exactly  *)
(* when the label the 'edge' rule gives is 1 and the label the 'feature'   *)
(* rule gives is 1.                                                        *)
C3_CombinedIsConjunction ==
    (pc = "done" /\ getLabel = "edge and feature") =>
        \A v \in Nodes(numNodes) :
            (y[v] = 1) <=>
                /\ GetLabel("edge", edges, numNodes, shape, x, med1, v,
                            base.num_hops) = Returned(1)
                /\ GetLabel("feature", edges, numNodes, shape, x, med1, v,
                            base.num_hops) = Returned(1)

(* C4 as stated: a build with an unsupported feature or labeling method    *)
(* name fails before the base graph is generated, before anything is       *)
(* planted and before any feature or label is computed.                    *)
C4_RejectedBeforeGraph ==
    UnsupportedNames =>
        /\ numNodes = 0
        /\ planted = 0
        /\ x = <<>>
        /\ y = <<>>

(* C4 amended: a build with an unsupported name never returns a dataset    *)
(* and computes no feature with an unsupported feature method and no label *)
(* with an unsupported labeling method; its NotImplementedError is raised  *)
(* when feature_generator() or labeling_rule() is called, by which time    *)
(* the base graph has been generated and planting has finished (and, for   *)
(* an unsupported labeling method, every node has its features).           *)
C4_RejectedWhenRequested ==
    /\ UnsupportedNames => pc # "done" /\ y = <<>>
    /\ UnsupportedFeatureName => x = <<>> /\ getFeature = "none"
    /\ err = "NotImplementedError" =>
          /\ pc = "failed"
          /\ UnsupportedNames
          /\ numNodes >= args.n
          /\ args.n >= 2
          /\ attempts = base.num_shapes
          /\ getLabel = "none"
          /\ ~UnsupportedFeatureName => DOMAIN x = Nodes(numNodes)

C4_Witness ==
    /\ err = "NotImplementedError"
    /\ UnsupportedFeatureName
    /\ planted = 1
    /\ numNodes = args.n + HouseSize

(* C5: a motif shape other than 'house' makes the build fail explicitly    *)
(* with a not-implemented or configuration error, without planting and     *)
(* without returning a dataset.                                            *)
C5_UnimplementedShapeFailsExplicitly ==
    Lower(args.shape) # "house" =>
        \/ pc = "new"
        \/ /\ pc = "failed"
           /\ err \in {"NotImplementedError", "ConfigurationError", "NetworkXError"}
           /\ planted = 0

(* C6: two builds with identical arguments return identical node and edge  *)
(* sets, features and labels.                                              *)
C6_Deterministic ==
    (run = 2 /\ pc = "done") => Dataset = prev

(* C7: under 'neighborhood upper bound' with bound shape_upper_bound, once *)
(* planting has finished no node's num_hops-hop neighbourhood holds more   *)
(* than that many motif instances, whatever num_shapes was (None taken as  *)
(* n).                                                                     *)
C7_UpperBoundRespected ==
    (args.plant_method = "neighborhood upper bound" /\ PostPlanting) =>
        \A v \in Nodes(numNodes) :
            Cardinality(InstancesInKHop(edges, numNodes, shape_id, v,
                                        args.num_hops)) <= args.shape_upper_bound

C7_Witness ==
    /\ args.plant_method = "neighborhood upper bound"
    /\ args.num_shapes = None
    /\ pc = "done"
    /\ attempts = args.n
    /\ planted >= 1
    /\ planted < attempts

(* C8: with 'onehot' every node's feature vector has length 3, holds only  *)
(* 0 and 1 and sums to 1.                                                  *)
C8_OneHotFeatures ==
    (getFeature = "onehot" /\ FeaturesComputed) =>
        \A v \in Nodes(numNodes) :
            /\ DOMAIN x[v] = 1 .. 3
            /\ \A i \in 1 .. 3 : x[v][i] \in {Rat(0), Rat(1)}
            /\ Sum3(x[v]) = 1

C8_Witness ==
    /\ getFeature = "onehot"
    /\ pc = "done"
    /\ \E u, v, w \in Nodes(numNodes) :
          x[u][1] = Rat(1) /\ x[v][2] = Rat(1) /\ x[w][3] = Rat(1)

(* C9: under the 'edge' rule a node whose num_hops-hop neighbourhood holds *)
(* no motif-tagged node has label 0.                                       *)
C9_NoMotifNoLabel ==
    (pc = "done" /\ getLabel = "edge") =>
        \A v \in Nodes(numNodes) : NoMotifInKHop(v) => y[v] = 0

C9_Witness ==
    /\ pc = "done"
    /\ getLabel = "edge"
    /\ planted >= 1
    /\ \E v, w \in Nodes(numNodes) : NoMotifInKHop(v) /\ y[v] = 0 /\ y[w] = 1

(* C10: with m >= n, n <= 0 or m <= 0 the build fails before any graph is  *)
(* built: no node, no edge, nothing planted, no feature and no label; the  *)
(* base graph generator, once reached, ends the build with the library's   *)
(* parameter error.                                                        *)
C10_InvalidParamsRejected ==
    InvalidBaseGraphParams =>
        /\ numNodes = 0
        /\ edges = {}
        /\ attempts = 0
        /\ planted = 0
        /\ getFeature = "none"
        /\ x = <<>>
        /\ getLabel = "none"
        /\ y = <<>>
        /\ pc \in {"new", "init_graph", "failed"}
        /\ (pc = "failed" /\ Lower(args.shape) = "house") => err = "NetworkXError"

C10_Witness ==
    /\ InvalidBaseGraphParams
    /\ pc = "failed"
    /\ err = "NetworkXError"

====
